---- MODULE Spec2Model ----
(***************************************************************************)
(* DHCP reservation manager (scripts/dhcp_reservation_manager.py).         *)
(*                                                                         *)
(* The configuration text is a sequence of lexical tokens:                 *)
(*   host  `host <fqdn> {`            v = the labels of the name           *)
(*   hw    `hardware ethernet <v>;`   v = the characters of the MAC        *)
(*   fa    `fixed-address <v>;`       v = the characters of the address    *)
(*   nl    a newline                                                       *)
(*   rb    `}`                                                             *)
(*   sp    a run of blanks            x  any other brace-free text         *)
(* s is the spelling of the token: "c" as build_reservation_block writes   *)
(* it, "n" any other spelling that the regular expressions still accept.   *)
(* The regular expressions of the source are evaluated on the tokens.      *)
(***************************************************************************)
EXTENDS Integers, Sequences, FiniteSets, TLC

VARIABLES
    pc,           \* the position of main, or "ops" when the text operations run alone
    args,         \* the command line flags
    rows,         \* the unread input: the rows of the CSV file, or the one row of the flags
    records,      \* main's records
    skipped,      \* the rows parse_csv warned about and skipped
    content,      \* main's buffer
    disk,         \* the configuration file
    orig_disk,    \* the configuration file when the run started
    backup,       \* the backup file
    backup_path,  \* main's backup_path
    idx,          \* the records the loop has taken
    ok,           \* main's ok
    fail,         \* main's fail
    exit,         \* main's return value, -1 while it runs
    out,          \* the last pipeline message main printed
    error_msg,    \* the message of the last validate_dhcpd_syntax
    prompts,      \* the confirmations asked
    last,         \* the last add_reservation or remove_reservation call and its result
    nops,         \* the text operations applied when they run alone
    now,          \* the clock, in seconds: datetime.now() as make_backup formats it
    snapshots,    \* the backup files, by the second in their name
    invocation    \* the number of the run of main

vars == <<pc, args, rows, records, skipped, content, disk, orig_disk, backup,
          backup_path, idx, ok, fail, exit, out, error_msg, prompts, last, nops,
          now, snapshots, invocation>>

-----------------------------------------------------------------------------
(* Bounds *)

MaxRecords == 2

MaxOps == 2

MaxRuns == 2

MaxClock == 1

-----------------------------------------------------------------------------
(* Characters and strings *)

None == <<>>

Digits == {"0", "1", "2", "3", "4", "5", "6", "7", "8", "9"}

HexLower == Digits \cup {"a", "b", "c", "d", "e", "f"}

HexAny == HexLower \cup {"A", "B", "C", "D", "E", "F"}

Lower(c) ==
    CASE c = "A" -> "a" [] c = "B" -> "b" [] c = "C" -> "c"
      [] c = "D" -> "d" [] c = "E" -> "e" [] c = "F" -> "f"
      [] c = "G" -> "g" [] c = "N" -> "n" [] c = "O" -> "o"
      [] c = "S" -> "s" [] c = "Y" -> "y" [] OTHER -> c

LowerSeq(s) == [i \in 1..Len(s) |-> Lower(s[i])]

ReplaceChar(s, from, to) == [i \in 1..Len(s) |-> IF s[i] = from THEN to ELSE s[i]]

RECURSIVE LStrip(_)
LStrip(s) == IF s # <<>> /\ Head(s) = " " THEN LStrip(Tail(s)) ELSE s

RECURSIVE RStrip(_)
RStrip(s) ==
    IF s # <<>> /\ s[Len(s)] = " " THEN RStrip(SubSeq(s, 1, Len(s) - 1)) ELSE s

Strip(s) == RStrip(LStrip(s))

RECURSIVE Split(_, _)
Split(s, sep) ==
    IF \E i \in 1..Len(s) : s[i] = sep
    THEN LET i == CHOOSE k \in 1..Len(s) :
                      s[k] = sep /\ \A j \in 1..(k - 1) : s[j] # sep
         IN <<SubSeq(s, 1, i - 1)>> \o Split(SubSeq(s, i + 1, Len(s)), sep)
    ELSE <<s>>

DigitValue(c) ==
    CASE c = "0" -> 0 [] c = "1" -> 1 [] c = "2" -> 2 [] c = "3" -> 3
      [] c = "4" -> 4 [] c = "5" -> 5 [] c = "6" -> 6 [] c = "7" -> 7
      [] c = "8" -> 8 [] c = "9" -> 9

(* int(p): blanks around, an optional sign, digits *)
IntBody(p) ==
    LET s == Strip(p)
    IN IF s # <<>> /\ Head(s) \in {"+", "-"} THEN Tail(s) ELSE s

IntParses(p) == IntBody(p) # <<>> /\ \A i \in 1..Len(IntBody(p)) : IntBody(p)[i] \in Digits

RECURSIVE DigitsValue(_)
DigitsValue(s) ==
    IF s = <<>> THEN 0
    ELSE 10 * DigitsValue(SubSeq(s, 1, Len(s) - 1)) + DigitValue(s[Len(s)])

IntValue(p) ==
    LET s == Strip(p)
    IN IF Head(s) = "-" THEN 0 - DigitsValue(IntBody(p)) ELSE DigitsValue(IntBody(p))

-----------------------------------------------------------------------------
(* Record validators *)

(* faulty variant: the components are only required to be integers *)
validate_ip_address_m(ip) ==
    LET parts == Split(ip, ".")
    IN /\ Len(parts) = 4
       /\ \A i \in 1..Len(parts) : IntParses(parts[i])

validate_ip_address(ip) ==
    LET parts == Split(ip, ".")
    IN /\ Len(parts) = 4
       /\ \A i \in 1..Len(parts) : IntParses(parts[i])
       /\ \A i \in 1..Len(parts) : 0 <= IntValue(parts[i]) /\ IntValue(parts[i]) <= 255

FullMatchMac(s) ==
    /\ Len(s) = 17
    /\ \A i \in 1..17 : IF i % 3 = 0 THEN s[i] = ":" ELSE s[i] \in HexLower

(* faulty variant: the case of the digits is left as written *)
normalize_mac_m(mac) ==
    LET s == ReplaceChar(Strip(mac), "-", ":")
    IN IF FullMatchMac(s) THEN s ELSE None

normalize_mac(mac) ==
    LET s == ReplaceChar(LowerSeq(Strip(mac)), "-", ":")
    IN IF FullMatchMac(s) THEN s ELSE None

-----------------------------------------------------------------------------
(* Names *)

domain == <<"example", "com">>

EndsWithDomain(hostname, dom) ==
    /\ Len(hostname) > Len(dom)
    /\ SubSeq(hostname, Len(hostname) - Len(dom) + 1, Len(hostname)) = dom

Fqdn(hostname, dom) ==
    IF dom # <<>> /\ ~EndsWithDomain(hostname, dom) THEN hostname \o dom ELSE hostname

-----------------------------------------------------------------------------
(* Tokens of the configuration text *)

Tok(t, v, s) == [t |-> t, v |-> v, s |-> s]

NL == Tok("nl", <<>>, "c")

RB == Tok("rb", <<>>, "c")

SP == Tok("sp", <<>>, "c")

OtherText == Tok("x", <<>>, "c")

HostTok(fqdn) == Tok("host", fqdn, "c")

HwTok(mac) == Tok("hw", mac, "c")

FaTok(ip) == Tok("fa", ip, "c")

(* faulty variant: the block is written without the newline after its closing brace *)
build_reservation_block_m(hostname, mac, ip, dom) ==
    <<HostTok(Fqdn(hostname, dom)), NL, HwTok(mac), NL, FaTok(ip), NL, RB>>

build_reservation_block(hostname, mac, ip, dom) ==
    <<HostTok(Fqdn(hostname, dom)), NL, HwTok(mac), NL, FaTok(ip), NL, RB, NL>>

-----------------------------------------------------------------------------
(* Searching the text *)

(* (^|\n)(host\s+<fqdn>\s*\{[\s\S]*?\n\})\n : the host line starts a line,     *)
(* the block ends at the first newline, brace, newline after the header.   *)
BlockStartsAt(c, fqdn, p) ==
    /\ c[p].t = "host"
    /\ c[p].v = fqdn
    /\ (p = 1 \/ c[p - 1].t = "nl")

BlockEndFrom(c, q) ==
    /\ q + 2 <= Len(c)
    /\ c[q].t = "nl"
    /\ c[q + 1].t = "rb"
    /\ c[q + 2].t = "nl"

BlockMatchAt(c, fqdn, p) ==
    BlockStartsAt(c, fqdn, p) /\ \E q \in (p + 1)..Len(c) : BlockEndFrom(c, q)

(* returns <<match.start(2), match.end(0)>> as Python offsets, or <<-1, -1>> *)
find_reservation_block(c, fqdn) ==
    IF \E p \in 1..Len(c) : BlockMatchAt(c, fqdn, p)
    THEN LET p == CHOOSE k \in 1..Len(c) :
                      BlockMatchAt(c, fqdn, k)
                      /\ \A j \in 1..(k - 1) : ~BlockMatchAt(c, fqdn, j)
             q == CHOOSE k \in (p + 1)..Len(c) :
                      BlockEndFrom(c, k)
                      /\ \A j \in (p + 1)..(k - 1) : ~BlockEndFrom(c, j)
         IN <<p - 1, q + 2>>
    ELSE <<-1, -1>>

(* hardware\s+ethernet\s+([0-9a-f:]+)\s*; under re.IGNORECASE *)
HwMatches(tok) ==
    /\ tok.t = "hw"
    /\ tok.v # <<>>
    /\ \A i \in 1..Len(tok.v) : tok.v[i] \in HexAny \cup {":"}

(* fixed-address\s+([\d.]+)\s*; *)
FaMatches(tok) ==
    /\ tok.t = "fa"
    /\ tok.v # <<>>
    /\ \A i \in 1..Len(tok.v) : tok.v[i] \in Digits \cup {"."}

(* [^\}]*? ... \} : the match ends at the first closing brace after the header *)
FirstRb(c, p) ==
    IF \E r \in (p + 1)..Len(c) : c[r].t = "rb"
    THEN CHOOSE r \in (p + 1)..Len(c) :
             c[r].t = "rb" /\ \A j \in (p + 1)..(r - 1) : c[j].t # "rb"
    ELSE 0

HwThenFa(c, j, r) == HwMatches(c[j]) /\ \E k \in (j + 1)..(r - 1) : FaMatches(c[k])

ReservationMatchAt(c, p) ==
    /\ c[p].t = "host"
    /\ \E j \in (p + 1)..(FirstRb(c, p) - 1) : HwThenFa(c, j, FirstRb(c, p))

ReservationAt(c, p) ==
    LET r == FirstRb(c, p)
        j == CHOOSE x \in (p + 1)..(r - 1) :
                 HwThenFa(c, x, r) /\ \A y \in (p + 1)..(x - 1) : ~HwThenFa(c, y, r)
        k == CHOOSE x \in (j + 1)..(r - 1) :
                 FaMatches(c[x]) /\ \A y \in (j + 1)..(x - 1) : ~FaMatches(c[y])
    IN <<c[p].v, LowerSeq(c[j].v), c[k].v>>

(* pattern.finditer(content): leftmost matches, one after the other *)
RECURSIVE ScanReservations(_, _)
ScanReservations(c, pos) ==
    IF \E p \in pos..Len(c) : ReservationMatchAt(c, p)
    THEN LET p == CHOOSE k \in pos..Len(c) :
                      ReservationMatchAt(c, k)
                      /\ \A j \in pos..(k - 1) : ~ReservationMatchAt(c, j)
         IN <<ReservationAt(c, p)>> \o ScanReservations(c, FirstRb(c, p) + 1)
    ELSE <<>>

extract_all_reservations(c) == ScanReservations(c, 1)

find_reservation_by_mac(c, mac) ==
    LET norm_mac == normalize_mac(mac)
        found == extract_all_reservations(c)
    IN IF norm_mac = None THEN None
       ELSE IF \E i \in 1..Len(found) : found[i][2] = norm_mac
       THEN found[CHOOSE i \in 1..Len(found) :
                      found[i][2] = norm_mac
                      /\ \A j \in 1..(i - 1) : found[j][2] # norm_mac]
       ELSE None

-----------------------------------------------------------------------------
(* The confirmation prompt *)

(* what input() gives: a line, end of input, or an interrupt *)
Line(text) == [kind |-> "line", text |-> text]

EndOfInput == [kind |-> "eof", text |-> <<>>]

Interrupt == [kind |-> "interrupt", text |-> <<>>]

Yes == {<<"y", "e", "s">>, <<"y">>}

No == {<<"n", "o">>, <<"n">>}

(* the input that ends the prompt; a terminal that gives no more lines is at     *)
(* end of input                                                                  *)
RECURSIVE Deciding(_)
Deciding(inputs) ==
    IF inputs = <<>> THEN EndOfInput
    ELSE IF Head(inputs).kind # "line" THEN Head(inputs)
    ELSE IF LowerSeq(Strip(Head(inputs).text)) \in Yes \cup No THEN Head(inputs)
    ELSE Deciding(Tail(inputs))

(* faulty variant: an interrupt at the prompt is taken for consent *)
get_user_confirmation_m(inputs) ==
    LET d == Deciding(inputs)
    IN IF d.kind = "interrupt" THEN TRUE
       ELSE IF d.kind = "eof" THEN FALSE
       ELSE LowerSeq(Strip(d.text)) \in Yes

get_user_confirmation(inputs) ==
    LET d == Deciding(inputs)
    IN IF d.kind # "line" THEN FALSE
       ELSE LowerSeq(Strip(d.text)) \in Yes

(* how the prompt ended *)
Answer(inputs) ==
    LET d == Deciding(inputs)
    IN IF d.kind # "line" THEN d.kind
       ELSE IF LowerSeq(Strip(d.text)) \in Yes THEN "yes" ELSE "no"

(* what the user may do at a prompt *)
PromptInputs ==
    {<<Line(<<"y", "e", "s">>)>>,
     <<Line(<<" ", "Y", " ">>)>>,
     <<Line(<<"N", "o">>)>>,
     <<Line(<<"o", "k">>), Line(<<"n">>)>>,
     <<EndOfInput>>,
     <<Interrupt>>,
     <<Line(<<>>), Interrupt>>}

-----------------------------------------------------------------------------
(* Mutations of the text *)

(* faulty variant: the newline that ends the block is left in the text *)
remove_reservation_m(c, hostname, dom) ==
    LET fqdn == Fqdn(hostname, dom)
        span == find_reservation_block(c, fqdn)
    IN IF span[1] = -1
       THEN [content |-> c, removed |-> FALSE]
       ELSE [content |-> SubSeq(c, 1, span[1]) \o SubSeq(c, span[2], Len(c)),
             removed |-> TRUE]

remove_reservation(c, hostname, dom) ==
    LET fqdn == Fqdn(hostname, dom)
        span == find_reservation_block(c, fqdn)
    IN IF span[1] = -1
       THEN [content |-> c, removed |-> FALSE]
       ELSE [content |-> SubSeq(c, 1, span[1]) \o SubSeq(c, span[2] + 1, Len(c)),
             removed |-> TRUE]

AddResult(c, changed, error, prompted) ==
    [content |-> c, changed |-> changed, error |-> error, prompted |-> prompted]

(* lines 365-383: replace the block of the name, or append *)
ApplyBlock(c, hostname, mac, ip, dom, prompted) ==
    LET fqdn == Fqdn(hostname, dom)
        span == find_reservation_block(c, fqdn)
        start == span[1]
        end == span[2]
        block == build_reservation_block(hostname, mac, ip, dom)
        prefix == IF start > 0 /\ c[start].t # "nl" THEN <<NL>> ELSE <<>>
        base == IF c # <<>> /\ c[Len(c)].t # "nl" THEN c \o <<NL>> ELSE c
    IN IF start # -1
       THEN AddResult(SubSeq(c, 1, start) \o prefix \o block \o SubSeq(c, end + 1, Len(c)),
                      (prefix \o block) # SubSeq(c, start + 1, end), "", prompted)
       ELSE AddResult(base \o block, TRUE, "", prompted)

ErrDeclined == "User declined to overwrite conflicting reservation"

ErrRemove == "Failed to remove conflicting reservation"

ErrConflict == "Conflict: MAC is already used"

(* faulty variant: a conflict is an error at once, also in interactive mode *)
add_reservation_m(c, hostname, mac, ip, dom, interactive, confirm) ==
    LET fqdn == Fqdn(hostname, dom)
        existing == find_reservation_by_mac(c, mac)
        conflict == existing # None /\ existing[1] # fqdn
    IN IF existing # None /\ existing[1] = fqdn /\ existing[3] = ip
       THEN AddResult(c, FALSE, "", FALSE)
       ELSE IF ~conflict THEN ApplyBlock(c, hostname, mac, ip, dom, FALSE)
       ELSE AddResult(c, FALSE, ErrConflict, FALSE)

(* faulty variant: the holder's block is removed before the user is asked *)
add_reservation_early_m(c, hostname, mac, ip, dom, interactive, confirm) ==
    LET fqdn == Fqdn(hostname, dom)
        existing == find_reservation_by_mac(c, mac)
        conflict == existing # None /\ existing[1] # fqdn
        rem == remove_reservation(c, <<Head(existing[1])>>, dom)
    IN IF existing # None /\ existing[1] = fqdn /\ existing[3] = ip
       THEN AddResult(c, FALSE, "", FALSE)
       ELSE IF ~conflict THEN ApplyBlock(c, hostname, mac, ip, dom, FALSE)
       ELSE IF ~interactive THEN AddResult(c, FALSE, ErrConflict, FALSE)
       ELSE IF ~confirm THEN AddResult(rem.content, FALSE, ErrDeclined, TRUE)
       ELSE IF ~rem.removed THEN AddResult(rem.content, FALSE, ErrRemove, TRUE)
       ELSE ApplyBlock(rem.content, hostname, mac, ip, dom, TRUE)

(* confirm is the answer get_user_confirmation gives if it is called *)
add_reservation(c, hostname, mac, ip, dom, interactive, confirm) ==
    LET fqdn == Fqdn(hostname, dom)
        existing == find_reservation_by_mac(c, mac)
        conflict == existing # None /\ existing[1] # fqdn
        rem == remove_reservation(c, <<Head(existing[1])>>, dom)
    IN IF existing # None /\ existing[1] = fqdn /\ existing[3] = ip
       THEN AddResult(c, FALSE, "", FALSE)
       ELSE IF ~conflict THEN ApplyBlock(c, hostname, mac, ip, dom, FALSE)
       ELSE IF ~interactive THEN AddResult(c, FALSE, ErrConflict, FALSE)
       ELSE IF ~confirm THEN AddResult(c, FALSE, ErrDeclined, TRUE)
       ELSE IF ~rem.removed THEN AddResult(rem.content, FALSE, ErrRemove, TRUE)
       ELSE ApplyBlock(rem.content, hostname, mac, ip, dom, TRUE)

-----------------------------------------------------------------------------
(* Inputs: addresses, names, input rows and configuration texts *)

MacA == <<"a", "a", ":", "b", "b", ":", "c", "c", ":", "d", "d", ":", "e", "e", ":", "f", "f">>

MacB == <<"a", "a", ":", "b", "b", ":", "c", "c", ":", "d", "d", ":", "e", "e", ":", "0", "1">>

MacADashUpper == <<"A", "A", "-", "B", "B", "-", "C", "C", "-", "D", "D", "-", "E", "E", "-", "F", "F">>

MacShort == <<"a", "a", ":", "b", "b", ":", "c", "c">>

MacNot == <<"n", "o", "t", "-", "a", "-", "m", "a", "c">>

(* blanks around, both separators, both cases *)
MacMixed ==
    <<" ", "a", "a", "-", "B", "B", ":", "c", "c", "-", "D", "D", ":", "e", "e", "-", "F", "F",
      " ">>

IpOne == <<"1", "0", ".", "0", ".", "0", ".", "1">>

IpTwo == <<"1", "0", ".", "0", ".", "0", ".", "2">>

IpBad == <<"2", "5", "6", ".", "1", ".", "1", ".", "1">>

(* an address validate_ip_address accepts: int() reads a sign *)
IpSigned == <<"+", "1", "0", ".", "0", ".", "0", ".", "3">>

IpThreeParts == <<"1", ".", "2", ".", "3">>

IpFiveParts == <<"1", ".", "2", ".", "3", ".", "4", ".", "5">>

IpNotNumeric == <<"1", ".", "2", ".", "3", ".", "x">>

IpLan == <<"1", "9", "2", ".", "1", "6", "8", ".", "1", ".", "1", "0", "0">>

HostA == <<"a">>

HostB == <<"b">>

HostAOther == <<"a", "other", "com">>

BlockOf(fqdn, mac, ip) == <<HostTok(fqdn), NL, HwTok(mac), NL, FaTok(ip), NL, RB, NL>>

(* the same block with fixed-address written before hardware ethernet *)
BlockReversed(fqdn, mac, ip) == <<HostTok(fqdn), NL, FaTok(ip), NL, HwTok(mac), NL, RB, NL>>

(* the block as the last thing of a file that does not end with a newline *)
BlockNoFinalNewline(fqdn, mac, ip) == <<HostTok(fqdn), NL, HwTok(mac), NL, FaTok(ip), NL, RB>>

TextEmpty == <<>>

TextOne == <<OtherText, NL, NL>> \o BlockOf(HostA \o domain, MacA, IpOne)

TextOtherDomain ==
    BlockOf(HostAOther, MacA, IpOne) \o <<NL>> \o BlockOf(HostA \o domain, MacB, IpTwo)

TextNoFinalNewline == BlockNoFinalNewline(HostA \o domain, MacA, IpOne)

TextReversed == BlockReversed(HostA \o domain, MacA, IpOne)

(* a block written on one line, then a block with one more directive *)
TextOneLine ==
    <<HostTok(HostA \o domain), SP, HwTok(MacA), SP, FaTok(IpOne), SP, RB, NL>>
        \o <<HostTok(HostB \o domain), NL, HwTok(MacB), NL, FaTok(IpTwo), NL,
             OtherText, NL, RB, NL>>

InitTexts == {TextEmpty, TextOne, TextOtherDomain, TextNoFinalNewline, TextReversed}

(* the texts the operations are tried on when they run alone *)
OpTexts == InitTexts \cup {TextOneLine}

-----------------------------------------------------------------------------
(* Input rows *)

RowUpdateA == <<HostA, MacA, IpTwo>>

RowConflictB == <<HostB, MacADashUpper, IpTwo>>

RowBadMac == <<HostB, MacShort, IpOne>>

RowBadIp == <<HostA, MacB, IpBad>>

RowShort == <<HostB, MacB>>

RawRows == {RowUpdateA, RowConflictB, RowBadMac, RowBadIp, RowShort}

RECURSIVE SeqsUpTo(_, _)
SeqsUpTo(S, n) ==
    IF n = 0 THEN {<<>>}
    ELSE LET shorter == SeqsUpTo(S, n - 1)
         IN shorter \cup {Append(q, x) : q \in shorter, x \in S}

RowBatches == SeqsUpTo(RawRows, MaxRecords) \ {<<>>}

RowNotMac == <<HostA, MacNot, IpOne>>

RowMixedMac == <<HostA, MacMixed, IpTwo>>

(* what --hostname, --mac and --ip may carry *)
FlagRows ==
    RawRows \cup {RowNotMac, RowMixedMac}
            \cup {<<HostA, MacA, ip>> :
                      ip \in {IpThreeParts, IpFiveParts, IpNotNumeric, IpLan, IpSigned}}

ArgSets ==
    [action : {"add", "remove"}, file : BOOLEAN, no_backup : BOOLEAN,
     non_interactive : BOOLEAN, skip_validation : BOOLEAN]

Field(row, i) == IF Len(row) >= i THEN row[i] ELSE <<>>

Record(hostname, mac, ip) == [hostname |-> hostname, mac |-> mac, ip |-> ip]

(* lines 105-113: the row is a record when it has three fields, a name, a MAC and an IP *)
RowIsRecord(row) ==
    /\ Len(row) >= 3
    /\ row[1] # <<>>
    /\ normalize_mac(Strip(row[2])) # None
    /\ validate_ip_address(Strip(row[3]))

RowRecord(row) == Record(row[1], normalize_mac(Strip(row[2])), Strip(row[3]))

(* lines 72-97: the first row is data when its MAC and IP are well formed,       *)
(* otherwise csv.Sniffer decides (sniff) whether it is a header                  *)
HasHeader(rs, sniff) ==
    /\ rs # <<>>
    /\ Len(rs[1]) >= 3
    /\ ~(normalize_mac(Strip(rs[1][2])) # None /\ validate_ip_address(Strip(rs[1][3])))
    /\ sniff

(* faulty variant: the loop stops at the first malformed row instead of going on *)
RECURSIVE KeepRecords_m(_)
KeepRecords_m(rs) ==
    IF rs = <<>> \/ ~RowIsRecord(Head(rs)) THEN <<>>
    ELSE <<RowRecord(Head(rs))>> \o KeepRecords_m(Tail(rs))

RECURSIVE KeepRecords(_)
KeepRecords(rs) ==
    IF rs = <<>> THEN <<>>
    ELSE (IF RowIsRecord(Head(rs)) THEN <<RowRecord(Head(rs))>> ELSE <<>>)
             \o KeepRecords(Tail(rs))

(* parse_csv: the records, and the number of rows skipped with a warning *)
parse_csv(rs, sniff) ==
    LET body == IF HasHeader(rs, sniff) THEN Tail(rs) ELSE rs
        kept == KeepRecords(body)
    IN [records |-> kept, skipped |-> Len(body) - Len(kept)]

-----------------------------------------------------------------------------
(* The external validator *)

ValidatorRuns == {"absent", "zero", "nonzero", "timeout", "oserror"}

WarnNoBinary == "WARNING: dhcpd binary not found, skipping syntax validation"

(* faulty variant: a non-zero exit of dhcpd -t is taken for success *)
validate_dhcpd_syntax_m(run) ==
    CASE run = "absent" -> [is_valid |-> TRUE, error_msg |-> WarnNoBinary]
      [] run = "zero" -> [is_valid |-> TRUE, error_msg |-> ""]
      [] run = "nonzero" -> [is_valid |-> TRUE, error_msg |-> "syntax error"]
      [] run = "timeout" ->
             [is_valid |-> FALSE, error_msg |-> "Timeout while validating dhcpd configuration"]
      [] run = "oserror" ->
             [is_valid |-> FALSE, error_msg |-> "Error validating dhcpd configuration"]

(* faulty variant: a missing dhcpd binary is reported as a failed validation *)
validate_dhcpd_syntax_strict_m(run) ==
    CASE run = "absent" -> [is_valid |-> FALSE, error_msg |-> WarnNoBinary]
      [] run = "zero" -> [is_valid |-> TRUE, error_msg |-> ""]
      [] run = "nonzero" -> [is_valid |-> FALSE, error_msg |-> "syntax error"]
      [] run = "timeout" ->
             [is_valid |-> FALSE, error_msg |-> "Timeout while validating dhcpd configuration"]
      [] run = "oserror" ->
             [is_valid |-> FALSE, error_msg |-> "Error validating dhcpd configuration"]

(* faulty variant: a timeout of dhcpd -t is let through as valid *)
validate_dhcpd_syntax_lenient_m(run) ==
    CASE run = "absent" -> [is_valid |-> TRUE, error_msg |-> WarnNoBinary]
      [] run = "zero" -> [is_valid |-> TRUE, error_msg |-> ""]
      [] run = "nonzero" -> [is_valid |-> FALSE, error_msg |-> "syntax error"]
      [] run = "timeout" ->
             [is_valid |-> TRUE, error_msg |-> "Timeout while validating dhcpd configuration"]
      [] run = "oserror" ->
             [is_valid |-> FALSE, error_msg |-> "Error validating dhcpd configuration"]

(* validate_dhcpd_syntax, run being what the host does with dhcpd -t *)
validate_dhcpd_syntax(run) ==
    CASE run = "absent" -> [is_valid |-> TRUE, error_msg |-> WarnNoBinary]
      [] run = "zero" -> [is_valid |-> TRUE, error_msg |-> ""]
      [] run = "nonzero" -> [is_valid |-> FALSE, error_msg |-> "syntax error"]
      [] run = "timeout" ->
             [is_valid |-> FALSE, error_msg |-> "Timeout while validating dhcpd configuration"]
      [] run = "oserror" ->
             [is_valid |-> FALSE, error_msg |-> "Error validating dhcpd configuration"]

-----------------------------------------------------------------------------
(* main *)

NoLast ==
    [op |-> "none", hostname |-> <<>>, mac |-> <<>>, ip |-> <<>>, interactive |-> FALSE,
     before |-> <<>>, after |-> <<>>, changed |-> FALSE, error |-> "", prompted |-> FALSE,
     answer |-> ""]

NoBackup == [exists |-> FALSE, content |-> <<>>]

Idle ==
    /\ records = <<>>
    /\ skipped = 0
    /\ backup = NoBackup
    /\ backup_path = "None"
    /\ idx = 0
    /\ ok = 0
    /\ fail = 0
    /\ exit = -1
    /\ out = ""
    /\ error_msg = ""
    /\ prompts = 0
    /\ last = NoLast
    /\ nops = 0
    /\ now = 0
    /\ snapshots = [t \in 0..MaxClock |-> NoBackup]
    /\ invocation = 1

Init ==
    /\ pc = "args"
    /\ args \in ArgSets
    /\ rows \in (IF args.file THEN RowBatches ELSE {<<r>> : r \in FlagRows})
    /\ disk \in InitTexts
    /\ orig_disk = disk
    /\ content = <<>>
    /\ Idle

Return(code, message) ==
    /\ pc' = "done"
    /\ exit' = code
    /\ out' = message

(* lines 491-499: the records of the CSV file *)
ParseFile ==
    /\ pc = "args"
    /\ args.file
    /\ \E sniff \in BOOLEAN :
           LET parsed == parse_csv(rows, sniff)
           IN IF parsed.records = <<>>
              THEN /\ Return(1, "ERROR: No valid records found in CSV file")
                   /\ UNCHANGED <<records, skipped>>
              ELSE /\ records' = parsed.records
                   /\ skipped' = parsed.skipped
                   /\ pc' = "load"
                   /\ UNCHANGED <<exit, out>>
    /\ rows' = <<>>
    /\ UNCHANGED <<args, content, disk, orig_disk, backup, backup_path, idx, ok, fail,
                   error_msg, prompts, last, nops>>
    /\ UNCHANGED <<now, snapshots, invocation>>

(* lines 500-517: the one record of the flags *)
ParseFlags ==
    /\ pc = "args"
    /\ ~args.file
    /\ LET hostname == Field(rows[1], 1)
           mac == Field(rows[1], 2)
           ip == Field(rows[1], 3)
       IN IF args.action = "add"
          THEN IF hostname = <<>> \/ mac = <<>> \/ ip = <<>>
               THEN /\ Return(1, "ERROR: --hostname, --mac, and --ip are required")
                    /\ UNCHANGED records
               ELSE IF normalize_mac(mac) = None
               THEN /\ Return(1, "ERROR: invalid MAC address")
                    /\ UNCHANGED records
               ELSE IF ~validate_ip_address(ip)
               THEN /\ Return(1, "ERROR: invalid IP address")
                    /\ UNCHANGED records
               ELSE /\ records' = <<Record(hostname, normalize_mac(mac), Strip(ip))>>
                    /\ pc' = "load"
                    /\ UNCHANGED <<exit, out>>
          ELSE IF hostname = <<>>
               THEN /\ Return(1, "ERROR: --hostname is required for remove")
                    /\ UNCHANGED records
               ELSE /\ records' = <<Record(hostname, None, None)>>
                    /\ pc' = "load"
                    /\ UNCHANGED <<exit, out>>
    /\ rows' = <<>>
    /\ UNCHANGED <<args, skipped, content, disk, orig_disk, backup, backup_path, idx, ok,
                   fail, error_msg, prompts, last, nops>>
    /\ UNCHANGED <<now, snapshots, invocation>>

(* lines 519-524 *)
LoadConfig ==
    /\ pc = "load"
    /\ \E readable \in BOOLEAN :
           IF readable
           THEN /\ content' = disk
                /\ pc' = "precheck"
                /\ UNCHANGED <<exit, out>>
           ELSE /\ Return(1, "ERROR: failed reading config")
                /\ UNCHANGED content
    /\ UNCHANGED <<args, rows, records, skipped, disk, orig_disk, backup, backup_path, idx,
                   ok, fail, error_msg, prompts, last, nops>>
    /\ UNCHANGED <<now, snapshots, invocation>>

(* lines 526-535 *)
PreValidate ==
    /\ pc = "precheck"
    /\ IF args.skip_validation
       THEN /\ pc' = "backup"
            /\ UNCHANGED <<exit, out, error_msg>>
       ELSE \E run \in ValidatorRuns :
                LET v == validate_dhcpd_syntax(run)
                IN /\ error_msg' = v.error_msg
                   /\ IF v.is_valid
                      THEN /\ pc' = "backup"
                           /\ UNCHANGED <<exit, out>>
                      ELSE Return(1, "ERROR: Current dhcpd.conf has syntax errors")
    /\ UNCHANGED <<args, rows, records, skipped, content, disk, orig_disk, backup,
                   backup_path, idx, ok, fail, prompts, last, nops>>
    /\ UNCHANGED <<now, snapshots, invocation>>

(* make_backup: shutil.copy2 of the configuration file *)
make_backup(file) == [exists |-> TRUE, content |-> file]

(* faulty variant: the backup opt-out is ignored *)
MakeBackup_m ==
    /\ pc = "backup"
    /\ \E copied \in BOOLEAN :
           IF copied
           THEN /\ backup' = make_backup(disk)
                /\ snapshots' = [snapshots EXCEPT ![now] = make_backup(disk)]
                /\ backup_path' = "bak"
                /\ pc' = "loop"
                /\ UNCHANGED <<exit, out>>
           ELSE /\ Return(1, "ERROR: failed to create backup")
                /\ UNCHANGED <<backup, backup_path, snapshots>>
    /\ UNCHANGED <<args, rows, records, skipped, content, disk, orig_disk, idx, ok, fail,
                   error_msg, prompts, last, nops>>
    /\ UNCHANGED <<now, invocation>>

(* lines 537-546 *)
MakeBackup ==
    /\ pc = "backup"
    /\ IF args.no_backup
       THEN /\ pc' = "loop"
            /\ UNCHANGED <<backup, backup_path, snapshots, exit, out>>
       ELSE \E copied \in BOOLEAN :
                IF copied
                THEN /\ backup' = make_backup(disk)
                     /\ snapshots' = [snapshots EXCEPT ![now] = make_backup(disk)]
                     /\ backup_path' = "bak"
                     /\ pc' = "loop"
                     /\ UNCHANGED <<exit, out>>
                ELSE /\ Return(1, "ERROR: failed to create backup")
                     /\ UNCHANGED <<backup, backup_path, snapshots>>
    /\ UNCHANGED <<args, rows, records, skipped, content, disk, orig_disk, idx, ok, fail,
                   error_msg, prompts, last, nops>>
    /\ UNCHANGED <<now, invocation>>


(* the call, its result, and how its prompt ended if it asked *)
Call(op, r, interactive, before, res, inputs) ==
    [op |-> op, hostname |-> r.hostname, mac |-> r.mac, ip |-> r.ip,
     interactive |-> interactive, before |-> before, after |-> res.content,
     changed |-> res.changed, error |-> res.error, prompted |-> res.prompted,
     answer |-> IF res.prompted THEN Answer(inputs) ELSE ""]

RemoveAsResult(rem) == AddResult(rem.content, rem.removed, "", FALSE)

(* lines 559-568: the call the loop makes for a record *)
RecordCall(c, action, r, interactive, confirm) ==
    IF action = "add"
    THEN add_reservation(c, r.hostname, r.mac, r.ip, domain, interactive, confirm)
    ELSE RemoveAsResult(remove_reservation(c, r.hostname, domain))

(* faulty variant: a record that ended in an error is counted nowhere *)
LoopStep_m(c, nok, nfail, res) ==
    IF res.error # "" THEN [content |-> c, ok |-> nok, fail |-> nfail]
    ELSE IF res.changed THEN [content |-> res.content, ok |-> nok + 1, fail |-> nfail]
    ELSE [content |-> c, ok |-> nok + 1, fail |-> nfail]

(* lines 563-576: what the loop does with the result of the call *)
LoopStep(c, nok, nfail, res) ==
    IF res.error # "" THEN [content |-> c, ok |-> nok, fail |-> nfail + 1]
    ELSE IF res.changed THEN [content |-> res.content, ok |-> nok + 1, fail |-> nfail]
    ELSE [content |-> c, ok |-> nok + 1, fail |-> nfail]

ErrRaised == "exception"

(* lines 557-579: one iteration of the loop; raised is an exception out of the call *)
ProcessRecord ==
    /\ pc = "loop"
    /\ idx < Len(records)
    /\ \E inputs \in PromptInputs, raised \in BOOLEAN :
           LET r == records[idx + 1]
               interactive == ~args.non_interactive
               confirm == get_user_confirmation(inputs)
               res == RecordCall(content, args.action, r, interactive, confirm)
               step == LoopStep(content, ok, fail, res)
           IN IF raised
              THEN /\ fail' = fail + 1
                   /\ last' = Call(args.action, r, interactive, content,
                                   AddResult(content, FALSE, ErrRaised, FALSE), inputs)
                   /\ UNCHANGED <<content, ok, prompts>>
              ELSE /\ content' = step.content
                   /\ ok' = step.ok
                   /\ fail' = step.fail
                   /\ prompts' = IF res.prompted THEN prompts + 1 ELSE prompts
                   /\ last' = Call(args.action, r, interactive, content, res, inputs)
    /\ idx' = idx + 1
    /\ UNCHANGED <<pc, args, rows, records, skipped, disk, orig_disk, backup, backup_path,
                   exit, out, error_msg, nops>>
    /\ UNCHANGED <<now, snapshots, invocation>>

(* faulty variant: a write that reports success loses the end of the buffer *)
save_config_text_m(file, c, written) ==
    CASE written = "all" -> SubSeq(c, 1, Len(c) - 1)
      [] written = "not opened" -> file
      [] written = "nothing" -> <<>>
      [] written = "part" -> SubSeq(c, 1, Len(c) \div 2)

(* save_config_text: open(path, 'w') truncates the file, write fills it *)
save_config_text(file, c, written) ==
    CASE written = "all" -> c
      [] written = "not opened" -> file
      [] written = "nothing" -> <<>>
      [] written = "part" -> SubSeq(c, 1, Len(c) \div 2)

(* lines 581-586 *)
SaveConfig ==
    /\ pc = "loop"
    /\ idx = Len(records)
    /\ \E written \in {"all", "not opened", "nothing", "part"} :
           /\ disk' = save_config_text(disk, content, written)
           /\ IF written = "all"
              THEN /\ pc' = "postcheck"
                   /\ UNCHANGED <<exit, out>>
              ELSE Return(1, "ERROR: failed writing config")
    /\ UNCHANGED <<args, rows, records, skipped, content, orig_disk, backup, backup_path,
                   idx, ok, fail, error_msg, prompts, last, nops>>
    /\ UNCHANGED <<now, snapshots, invocation>>

(* faulty variant: the copy reports success and leaves the file as it is *)
restore_from_backup_m(file, bak, copied) ==
    CASE copied = "all" -> [ok |-> TRUE, file |-> file]
      [] copied = "not opened" -> [ok |-> FALSE, file |-> file]
      [] copied = "nothing" -> [ok |-> FALSE, file |-> <<>>]

(* restore_from_backup: shutil.copy2 of the backup over the configuration file *)
restore_from_backup(file, bak, copied) ==
    CASE copied = "all" -> [ok |-> TRUE, file |-> bak.content]
      [] copied = "not opened" -> [ok |-> FALSE, file |-> file]
      [] copied = "nothing" -> [ok |-> FALSE, file |-> <<>>]

(* faulty variant: the failure count is ignored *)
ExitCode_m(nfail) == 0

(* line 613 *)
ExitCode(nfail) == IF nfail = 0 THEN 0 ELSE 1

(* lines 588-613 *)
PostValidate ==
    /\ pc = "postcheck"
    /\ IF args.skip_validation
       THEN /\ Return(ExitCode(fail), "Summary")
            /\ UNCHANGED <<disk, error_msg>>
       ELSE \E run \in ValidatorRuns, copied \in {"all", "not opened", "nothing"} :
                LET v == validate_dhcpd_syntax(run)
                    restored == restore_from_backup(disk, backup, copied)
                IN /\ error_msg' = v.error_msg
                   /\ IF v.is_valid
                      THEN /\ Return(ExitCode(fail), "Summary")
                           /\ UNCHANGED disk
                      ELSE IF backup_path # "None" /\ backup.exists
                      THEN /\ disk' = restored.file
                           /\ Return(1, IF restored.ok
                                        THEN "Configuration restored from backup"
                                        ELSE "Failed to restore from backup!")
                      ELSE /\ Return(1, "ERROR: Updated dhcpd.conf has syntax errors!")
                           /\ UNCHANGED disk
    /\ UNCHANGED <<args, rows, records, skipped, content, orig_disk, backup, backup_path,
                   idx, ok, fail, prompts, last, nops>>
    /\ UNCHANGED <<now, snapshots, invocation>>

Next ==
    \/ ParseFile
    \/ ParseFlags
    \/ LoadConfig
    \/ PreValidate
    \/ MakeBackup
    \/ ProcessRecord
    \/ SaveConfig
    \/ PostValidate

Spec == Init /\ [][Next]_vars

-----------------------------------------------------------------------------
(* The text operations alone: any sequence of add_reservation and remove_reservation *)

OpHosts == {HostA, HostB, <<"a", "b">>}

OpRecords ==
    {Record(h, m, i) : h \in OpHosts, m \in {MacA, MacB}, i \in {IpOne, IpTwo, IpSigned}}

OpInit ==
    /\ pc = "ops"
    /\ args = [action |-> "add", file |-> FALSE, no_backup |-> TRUE,
               non_interactive |-> FALSE, skip_validation |-> TRUE]
    /\ rows = <<>>
    /\ content \in OpTexts
    /\ disk = content
    /\ orig_disk = content
    /\ Idle

OpAdd ==
    /\ pc = "ops"
    /\ nops < MaxOps
    /\ \E r \in OpRecords, interactive \in BOOLEAN, inputs \in PromptInputs :
           LET res == add_reservation(content, r.hostname, r.mac, r.ip, domain,
                                      interactive, get_user_confirmation(inputs))
           IN /\ content' = res.content
              /\ last' = Call("add", r, interactive, content, res, inputs)
    /\ nops' = nops + 1
    /\ UNCHANGED <<pc, args, rows, records, skipped, disk, orig_disk, backup, backup_path,
                   idx, ok, fail, exit, out, error_msg, prompts>>
    /\ UNCHANGED <<now, snapshots, invocation>>

OpRemove ==
    /\ pc = "ops"
    /\ nops < MaxOps
    /\ \E h \in OpHosts :
           LET res == RemoveAsResult(remove_reservation(content, h, domain))
           IN /\ content' = res.content
              /\ last' = Call("remove", Record(h, None, None), FALSE, content, res, <<>>)
    /\ nops' = nops + 1
    /\ UNCHANGED <<pc, args, rows, records, skipped, disk, orig_disk, backup, backup_path,
                   idx, ok, fail, exit, out, error_msg, prompts>>
    /\ UNCHANGED <<now, snapshots, invocation>>

OpNext == OpAdd \/ OpRemove

OpSpec == OpInit /\ [][OpNext]_vars

-----------------------------------------------------------------------------
(* Runs of main one after the other on the same configuration file *)

RunArgs ==
    [action : {"add"}, file : {FALSE}, no_backup : BOOLEAN,
     non_interactive : {TRUE}, skip_validation : BOOLEAN]

RunRows == {<<RowUpdateA>>, <<RowConflictB>>}

RunsInit ==
    /\ Init
    /\ args \in RunArgs
    /\ rows \in RunRows

(* the next invocation of the script: the files stay, main's locals start anew *)
NewRun ==
    /\ pc = "done"
    /\ invocation < MaxRuns
    /\ invocation' = invocation + 1
    /\ pc' = "args"
    /\ args' \in RunArgs
    /\ rows' \in RunRows
    /\ orig_disk' = disk
    /\ records' = <<>>
    /\ skipped' = 0
    /\ content' = <<>>
    /\ backup' = NoBackup
    /\ backup_path' = "None"
    /\ idx' = 0
    /\ ok' = 0
    /\ fail' = 0
    /\ exit' = -1
    /\ out' = ""
    /\ error_msg' = ""
    /\ prompts' = 0
    /\ last' = NoLast
    /\ UNCHANGED <<disk, nops, now, snapshots>>

(* a second passes *)
Tick ==
    /\ now < MaxClock
    /\ now' = now + 1
    /\ UNCHANGED <<pc, args, rows, records, skipped, content, disk, orig_disk, backup,
                   backup_path, idx, ok, fail, exit, out, error_msg, prompts, last, nops,
                   snapshots, invocation>>

RunsNext ==
    \/ ParseFlags
    \/ LoadConfig
    \/ PreValidate
    \/ MakeBackup
    \/ ProcessRecord
    \/ SaveConfig
    \/ PostValidate
    \/ NewRun
    \/ Tick

RunsSpec == RunsInit /\ [][RunsNext]_vars

-----------------------------------------------------------------------------
(* Properties of the safety pipeline *)

MsgCurrentInvalid == "ERROR: Current dhcpd.conf has syntax errors"

MsgRestored == "Configuration restored from backup"

MsgRestoreFailed == "Failed to restore from backup!"

MsgUpdatedInvalid == "ERROR: Updated dhcpd.conf has syntax errors!"

(* the run ended in the branch of a failed post-mutation validation *)
PostCheckFailed == pc = "done" /\ out \in {MsgRestored, MsgRestoreFailed, MsgUpdatedInvalid}

(* the last validate_dhcpd_syntax answered "not valid" *)
Rejected == error_msg \notin {"", WarnNoBinary}

(* C1, as claimed: with backup and validation enabled, whenever the validator    *)
(* rejects the file written by the persist step, the file on disk after the run  *)
(* equals its content before the run and main returns 1.                         *)
C1_RollbackAlways ==
    (PostCheckFailed /\ ~args.no_backup /\ ~args.skip_validation)
        => (disk = orig_disk /\ exit = 1)

(* C1, amended: with backup and validation enabled, whenever the validator       *)
(* rejects the file written by the persist step main returns 1, and when the     *)
(* copy of restore_from_backup succeeds the file on disk equals the backup taken *)
(* in this run, which equals the file's content before the run.                  *)
C1_RollbackWhenRestored ==
    (PostCheckFailed /\ ~args.no_backup /\ ~args.skip_validation)
        => /\ exit = 1
           /\ out \in {MsgRestored, MsgRestoreFailed}
           /\ backup.exists /\ backup.content = orig_disk
           /\ (out = MsgRestored => disk = orig_disk)

(* a rejected write of a changed buffer was rolled back *)
C1_Witness ==
    /\ PostCheckFailed /\ ~args.no_backup /\ ~args.skip_validation
    /\ out = MsgRestored
    /\ content # orig_disk
    /\ disk = orig_disk

(* C2: with validation enabled, a run that returns 0 leaves on disk the final    *)
(* buffer, and the post-mutation validate_dhcpd_syntax answered "valid" for it.  *)
C2_SuccessMeansAccepted ==
    (pc = "done" /\ ~args.skip_validation /\ exit = 0)
        => (disk = content /\ out = "Summary" /\ ~Rejected)

(* a successful run that changed the file *)
C2_Witness ==
    /\ pc = "done" /\ ~args.skip_validation /\ exit = 0
    /\ disk # orig_disk
    /\ error_msg = ""

(* C3: with validation enabled, when the validator rejects the file as it is     *)
(* before the run, main returns 1 at once: no backup exists, no record has been  *)
(* taken, and the file on disk is unchanged.                                     *)
C3_PreCheckAborts ==
    (Rejected /\ ~PostCheckFailed)
        => /\ pc = "done" /\ exit = 1 /\ out = MsgCurrentInvalid
           /\ ~backup.exists /\ backup_path = "None"
           /\ idx = 0 /\ ok = 0 /\ fail = 0
           /\ content = orig_disk /\ disk = orig_disk

(* the pre-check rejected the file of a run that had records to apply *)
C3_Witness ==
    /\ pc = "done" /\ out = MsgCurrentInvalid /\ exit = 1
    /\ ~args.no_backup
    /\ records # <<>>
    /\ disk # <<>>

-----------------------------------------------------------------------------
(* Properties of the mutations *)

(* the hardware statements of the text that carry the MAC *)
MacHolders(c, mac) == {i \in 1..Len(c) : c[i].t = "hw" /\ LowerSeq(c[i].v) = mac}

MacUnique(c) ==
    \A i, j \in 1..Len(c) :
        (c[i].t = "hw" /\ c[j].t = "hw" /\ LowerSeq(c[i].v) = LowerSeq(c[j].v)) => i = j

(* statement i stands in the block opened by the header at p *)
InBlockOf(c, p, i) ==
    /\ p < i
    /\ c[p].t = "host"
    /\ \A k \in (p + 1)..(i - 1) : c[k].t \notin {"host", "rb"}

(* a block of another name than fqdn holds the MAC *)
HeldByOther(c, mac, fqdn) ==
    \E i \in MacHolders(c, mac) : \E p \in 1..(i - 1) : InBlockOf(c, p, i) /\ c[p].v # fqdn

HasBlockHeader(c, fqdn) == \E p \in 1..Len(c) : c[p].t = "host" /\ c[p].v = fqdn

(* the text ends with a newline, writes hardware ethernet before fixed-address   *)
(* and every closing brace at the start of a line                                *)
PlainText(c) ==
    /\ c = <<>> \/ c[Len(c)].t = "nl"
    /\ \A i \in 1..Len(c) : c[i].t = "hw" => (i + 2 <= Len(c) /\ c[i + 2].t = "fa")
    /\ \A i \in 1..Len(c) : c[i].t = "rb" => (i > 1 /\ c[i - 1].t = "nl")

(* C4, as claimed: every MAC stands in at most one reservation block of the      *)
(* buffer, after any sequence of add_reservation and remove_reservation calls    *)
(* from a text in which that is so (here: a text of blocks laid out as           *)
(* build_reservation_block lays them out).                                       *)
C4_MacUnique == (PlainText(orig_disk) /\ MacUnique(orig_disk)) => MacUnique(content)

(* C5, as claimed: a non-interactive add of a record whose MAC a block of a      *)
(* different fqdn holds returns the conflict error and the text unchanged,       *)
(* asks nothing, is counted as failed, and leaves the MAC with the old block.    *)
C5_ConflictFails ==
    [][(/\ pc = "loop" /\ idx' = idx + 1
        /\ args.action = "add" /\ args.non_interactive
        /\ last'.error # ErrRaised
        /\ HeldByOther(content, records[idx + 1].mac,
                       Fqdn(records[idx + 1].hostname, domain)))
       => (/\ last'.error = ErrConflict
           /\ last'.after = content
           /\ content' = content
           /\ prompts' = prompts
           /\ fail' = fail + 1
           /\ ok' = ok)]_vars

(* C6, as claimed: when an add succeeds, the same add applied to its result      *)
(* reports no change and no error and returns the same text; the add of a record *)
(* whose name has no block yet reports a change.                                 *)
C6_AddIdempotent ==
    [][(/\ pc = "ops" /\ last'.op = "add"
        /\ last.op = "add" /\ last.error = ""
        /\ last'.hostname = last.hostname /\ last'.mac = last.mac /\ last'.ip = last.ip
        /\ last'.interactive = last.interactive)
       => (/\ ~last'.changed
           /\ last'.error = ""
           /\ content' = content
           /\ (~HasBlockHeader(last.before, Fqdn(last.hostname, domain)) => last.changed))]_vars

(* C7, as claimed: removing a host that has no block returns the text unchanged  *)
(* with removed = False, the loop counts that record as successful, and removing *)
(* a host twice gives the text that removing it once gives.                      *)
C7_RemoveIdempotent ==
    /\ [](\A h \in OpHosts :
              LET once == remove_reservation(content, h, domain)
                  twice == remove_reservation(once.content, h, domain)
              IN /\ ~HasBlockHeader(content, Fqdn(h, domain))
                        => (~once.removed /\ once.content = content)
                 /\ twice.content = once.content)
    /\ [][(/\ pc = "loop" /\ idx' = idx + 1 /\ args.action = "remove"
           /\ last'.error # ErrRaised
           /\ ~HasBlockHeader(content, Fqdn(records[idx + 1].hostname, domain)))
          => (content' = content /\ ~last'.changed /\ ok' = ok + 1 /\ fail' = fail)]_vars

(* C8: main returns 0 exactly when it reached the summary with every record      *)
(* counted as successful; it returns 1 when a record failed and when the config  *)
(* could not be read, the backup failed, the write failed, or the post-mutation  *)
(* validation failed.                                                            *)
C8_ExitCode ==
    pc = "done"
        => /\ exit \in {0, 1}
           /\ exit = 0 <=> (out = "Summary" /\ idx = Len(records) /\ ok = Len(records))
           /\ (fail > 0 \/ out # "Summary") => exit = 1

(* every record of a batch of two succeeded and the run returned 0 *)
C8_Witness ==
    /\ pc = "done" /\ exit = 0
    /\ Len(records) >= 2 /\ ok = Len(records)
    /\ disk # orig_disk

-----------------------------------------------------------------------------
(* Properties of the batch *)

(* C9, as claimed: in batch-file mode a run whose file held a malformed row       *)
(* (one that parse_csv reported) does not return 0.                              *)
C9_MalformedFails == (pc = "done" /\ args.file /\ skipped > 0) => exit # 0

WellFormedRows(rs) == SelectSeq(rs, RowIsRecord)

(* the rows parse_csv reads as data: all of them, or all but a first row that is *)
(* not a well-formed record and that the header detection may take for a header  *)
DataRows(rs) ==
    {rs} \cup (IF /\ rs # <<>>
                   /\ Len(rs[1]) >= 3
                   /\ (normalize_mac(rs[1][2]) = None \/ ~validate_ip_address(Strip(rs[1][3])))
               THEN {Tail(rs)} ELSE {})

(* C9, amended: in batch-file mode every well-formed data row becomes a record,  *)
(* in order, whatever malformed rows stand between them; a malformed data row is *)
(* skipped with a warning and is not counted in the failure count (fail counts   *)
(* only records the loop took), and main returns 1 before any mutation only when *)
(* no well-formed row is left; at the summary the exit code is 0 exactly when no *)
(* record failed, however many rows were skipped.                                *)
C9_MalformedSkipped ==
    [][/\ (pc = "args" /\ args.file)
              => \E body \in DataRows(rows) :
                     /\ fail' = 0
                     /\ IF WellFormedRows(body) = <<>>
                        THEN pc' = "done" /\ exit' = 1 /\ disk' = disk
                        ELSE /\ pc' = "load"
                             /\ Len(records') = Len(WellFormedRows(body))
                             /\ \A i \in 1..Len(records') :
                                    records'[i] = RowRecord(WellFormedRows(body)[i])
                             /\ skipped' = Len(body) - Len(records')
       /\ fail' <= idx' /\ idx' <= Len(records')
       /\ (pc' = "done" /\ out' = "Summary") => (exit' = 0 <=> fail' = 0)]_vars

(* a run whose file held a malformed row between records returned 0 *)
C9_Witness ==
    /\ pc = "done" /\ args.file /\ skipped > 0
    /\ exit = 0 /\ fail = 0
    /\ ok = Len(records) /\ Len(records) >= 1
    /\ disk # orig_disk

(* C10: a record that fails (conflict, declined confirmation, exception) leaves  *)
(* the buffer as it was and the loop goes on: every iteration adds one to ok or  *)
(* to fail, the loop ends only when every record was taken, the buffer changes   *)
(* only in an iteration counted in ok, and the buffer at the end of the loop is  *)
(* what a successful write puts on disk.                                         *)
C10_BatchGoesOn ==
    [][/\ (pc = "loop" /\ idx' = idx + 1)
              => /\ pc' = "loop"
                 /\ ok' + fail' = ok + fail + 1
                 /\ ok' + fail' = idx'
                 /\ last'.error # "" <=> fail' = fail + 1
                 /\ fail' = fail + 1 => content' = content
                 /\ content' # content => (ok' = ok + 1 /\ content' = last'.after)
       /\ (pc = "loop" /\ pc' # "loop")
              => /\ idx = Len(records)
                 /\ ok + fail = Len(records)
                 /\ content' = content
                 /\ pc' = "postcheck" => disk' = content]_vars

(* the record after a failed record was applied and its change was written *)
C10_Witness ==
    /\ pc = "postcheck"
    /\ idx = 2 /\ fail = 1 /\ ok = 1
    /\ last.error = "" /\ last.changed
    /\ content = last.after
    /\ disk = content /\ disk # orig_disk

(* the headers of the blocks of the name *)
BlocksOf(c, fqdn) == {p \in 1..Len(c) : c[p].t = "host" /\ c[p].v = fqdn}

(* the block opened at p binds the MAC and the address *)
BlockCarries(c, p, mac, ip) ==
    /\ \E i \in (p + 1)..Len(c) : InBlockOf(c, p, i) /\ c[i].t = "hw" /\ c[i].v = mac
    /\ \E i \in (p + 1)..Len(c) : InBlockOf(c, p, i) /\ c[i].t = "fa" /\ c[i].v = ip
    /\ \A i \in (p + 1)..Len(c) :
           (InBlockOf(c, p, i) /\ c[i].t = "hw") => c[i].v = mac
    /\ \A i \in (p + 1)..Len(c) :
           (InBlockOf(c, p, i) /\ c[i].t = "fa") => c[i].v = ip

(* C11, as claimed: a record of a batch is evaluated against the buffer the      *)
(* earlier records left; in a non-interactive add batch a record that carries    *)
(* the MAC of the record applied just before it under another name fails with    *)
(* the conflict error, and after two successful records for one name the block   *)
(* of that name in the buffer is one block carrying the values of the later.     *)
C11_BatchOrder ==
    [][(/\ pc = "loop" /\ idx' = idx + 1 /\ idx >= 1
        /\ args.action = "add" /\ args.non_interactive
        /\ last.error = "" /\ last'.error # ErrRaised)
       => (/\ last'.before = last.after
           /\ (/\ last'.mac = last.mac
               /\ Fqdn(last'.hostname, domain) # Fqdn(last.hostname, domain))
                  => (last'.error = ErrConflict /\ content' = content)
           /\ (/\ Fqdn(last'.hostname, domain) = Fqdn(last.hostname, domain)
               /\ last'.error = "")
                  => (/\ Cardinality(BlocksOf(content', Fqdn(last'.hostname, domain))) = 1
                      /\ \A p \in BlocksOf(content', Fqdn(last'.hostname, domain)) :
                             BlockCarries(content', p, last'.mac, last'.ip)))]_vars

(* the block find_reservation_by_mac reports for the MAC belongs to another name *)
ConflictSeen(c, mac, fqdn) ==
    find_reservation_by_mac(c, mac) # None /\ find_reservation_by_mac(c, mac)[1] # fqdn

(* C12, as claimed: a record whose confirmation the user declined is not counted *)
(* as failed, and the text is left unchanged.                                    *)
C12_DeclinedSkipped ==
    [][(pc = "loop" /\ idx' = idx + 1 /\ last'.error = ErrDeclined)
       => (fail' = fail /\ content' = content)]_vars

(* C12, amended: in interactive mode an add that meets a MAC conflict asks for   *)
(* confirmation once; when the user declines, add_reservation returns the text   *)
(* unchanged with the error "User declined ...", the loop counts the record as   *)
(* failed (there are only the counters ok and fail) and leaves the buffer as it  *)
(* was, and a run that reaches the summary after it returns 1.                   *)
C12_DeclinedFails ==
    [][/\ (/\ pc = "loop" /\ idx' = idx + 1
           /\ args.action = "add" /\ ~args.non_interactive
           /\ last'.error # ErrRaised
           /\ ConflictSeen(content, records[idx + 1].mac,
                           Fqdn(records[idx + 1].hostname, domain)))
              => /\ last'.prompted /\ prompts' = prompts + 1
                 /\ last'.error \in {ErrDeclined, ErrRemove, ""}
                 /\ last'.error = ErrDeclined
                        => /\ ~last'.changed /\ last'.after = content
                           /\ content' = content
                           /\ fail' = fail + 1 /\ ok' = ok
       /\ (pc = "loop" /\ idx' = idx + 1 /\ last'.error = ErrDeclined)
              => (last'.prompted /\ ~args.non_interactive /\ fail' = fail + 1)
       /\ (pc' = "done" /\ out' = "Summary" /\ last'.error = ErrDeclined) => exit' = 1]_vars

(* the user declined the one conflict of a run, which then returned 1 *)
C12_Witness ==
    /\ pc = "done" /\ out = "Summary" /\ exit = 1
    /\ last.error = ErrDeclined /\ last.prompted
    /\ prompts = 1 /\ fail = 1
    /\ content = last.before /\ disk = orig_disk

(* the names that have a block header in the text *)
HostNames(c) == {c[p].v : p \in {q \in 1..Len(c) : c[q].t = "host"}}

(* C13, as claimed: when the user accepts the confirmation for a MAC conflict    *)
(* (here: in a buffer laid out as build_reservation_block lays blocks out), the  *)
(* add succeeds, the block that held the MAC is gone from the buffer the batch   *)
(* continues with, the blocks of all other names are kept, and the MAC stands    *)
(* only in the block of the new fqdn.                                            *)
C13_AcceptRemovesHolder ==
    [][(/\ pc = "loop" /\ idx' = idx + 1
        /\ args.action = "add" /\ ~args.non_interactive
        /\ PlainText(content)
        /\ last'.prompted /\ last'.error # ErrDeclined)
       => LET r == records[idx + 1]
              fqdn == Fqdn(r.hostname, domain)
              holder == find_reservation_by_mac(content, r.mac)[1]
          IN /\ last'.error = ""
             /\ content' = last'.after
             /\ BlocksOf(content', holder) = {}
             /\ \A n \in HostNames(content) \ {holder, fqdn} :
                    Cardinality(BlocksOf(content', n)) = Cardinality(BlocksOf(content, n))
             /\ MacHolders(content', r.mac) # {}
             /\ \A i \in MacHolders(content', r.mac) :
                    \E p \in BlocksOf(content', fqdn) : InBlockOf(content', p, i)]_vars

HostUnique(c) == \A n \in HostNames(c) : Cardinality(BlocksOf(c, n)) <= 1

(* C14, as claimed: from a text with at most one block per fqdn, after any       *)
(* sequence of add_reservation and remove_reservation calls every fqdn has at    *)
(* most one block: add replaces the block of the name and never appends a second.*)
C14_HostUnique == HostUnique(orig_disk) => HostUnique(content)

(* the block opened at p: from its header to its closing brace *)
BlockLast(c, p) == IF FirstRb(c, p) = 0 THEN Len(c) ELSE FirstRb(c, p)

BlockText(c, p) == SubSeq(c, p, BlockLast(c, p))

BlockTexts(c, fqdn) == {BlockText(c, p) : p \in BlocksOf(c, fqdn)}

(* the positions of the text inside the blocks of the name *)
OwnPositions(c, fqdn) ==
    {i \in 1..Len(c) : \E p \in BlocksOf(c, fqdn) : p <= i /\ i <= BlockLast(c, p)}

RECURSIVE Pick(_, _, _)
Pick(c, keep, i) ==
    IF i > Len(c) THEN <<>>
    ELSE (IF i \in keep THEN <<c[i]>> ELSE <<>>) \o Pick(c, keep, i + 1)

(* the text outside the blocks of the name, newlines apart *)
OutsideOf(c, fqdn) ==
    Pick(c, {i \in 1..Len(c) : i \notin OwnPositions(c, fqdn) /\ c[i].t # "nl"}, 1)

SpansDisjoint(c) ==
    \A n, m \in HostNames(c) :
        LET sn == find_reservation_block(c, n)
            sm == find_reservation_block(c, m)
        IN (n # m /\ sn[1] # -1 /\ sm[1] # -1) => (sn[2] <= sm[1] \/ sm[2] <= sn[1])

(* C15, as claimed: an add or a remove for a name (no conflict to resolve)       *)
(* leaves the text outside the blocks of that name as it was: the blocks of all  *)
(* other names are still there, token for token, whatever their layout; and the  *)
(* spans find_reservation_block reports for different names do not overlap.      *)
C15_Frame ==
    [][(pc = "ops" /\ nops' = nops + 1 /\ ~last'.prompted /\ last'.error = "")
       => LET fqdn == Fqdn(last'.hostname, domain)
          IN /\ SpansDisjoint(content)
             /\ OutsideOf(content', fqdn) = OutsideOf(content, fqdn)
             /\ \A n \in HostNames(content) \ {fqdn} :
                    BlockTexts(content', n) = BlockTexts(content, n)]_vars

-----------------------------------------------------------------------------
(* Properties of the searches *)

(* C16, as claimed: for every text and every valid record, in the text followed  *)
(* by the block build_reservation_block builds, find_reservation_block returns   *)
(* the span of that appended block.                                              *)
C16_FindsAppendedAnyText ==
    \A r \in OpRecords :
        LET block == build_reservation_block(r.hostname, r.mac, r.ip, domain)
            text == content \o block
        IN find_reservation_block(text, Fqdn(r.hostname, domain)) = <<Len(content), Len(text)>>

(* C16, amended: when the text holds no block header of the fqdn, and the block  *)
(* is appended as add_reservation appends it (at the start of a line), then      *)
(* find_reservation_block on the result returns the span of the appended block:  *)
(* from its host line to just after the newline that follows its closing brace.  *)
C16_FindsAppended ==
    [][(/\ pc = "ops" /\ nops' = nops + 1 /\ last'.op = "add"
        /\ last'.error = "" /\ ~last'.prompted
        /\ ~HasBlockHeader(content, Fqdn(last'.hostname, domain)))
       => LET block == build_reservation_block(last'.hostname, last'.mac, last'.ip, domain)
              span == find_reservation_block(content', Fqdn(last'.hostname, domain))
          IN /\ last'.changed
             /\ span = <<Len(content') - Len(block), Len(content')>>
             /\ SubSeq(content', span[1] + 1, span[2]) = block
             /\ content'[span[1] + 1].t = "host" /\ content'[span[2]].t = "nl"
             /\ content'[span[2] - 1].t = "rb"
             /\ SubSeq(content', 1, Len(content)) = content]_vars

(* a block was appended to a text that held another block and did not end with   *)
(* a newline, and find_reservation_block reports its span                        *)
C16_Witness ==
    /\ pc = "ops" /\ last.op = "add" /\ last.changed /\ last.error = ""
    /\ content = last.after
    /\ last.before # <<>> /\ last.before[Len(last.before)].t # "nl"
    /\ ~HasBlockHeader(last.before, Fqdn(last.hostname, domain))
    /\ find_reservation_block(content, Fqdn(last.hostname, domain))
           = <<Len(last.before) + 1, Len(content)>>

(* C17, as claimed: for every valid (hostname, mac, ip), the block that          *)
(* build_reservation_block builds (here: added to the empty text) is read back   *)
(* by extract_all_reservations as the one reservation (fqdn, mac, ip).           *)
C17_ExportRoundTrip ==
    [][(/\ pc = "ops" /\ nops' = nops + 1 /\ last'.op = "add"
        /\ content = <<>>
        /\ last'.hostname # <<>>
        /\ normalize_mac(last'.mac) = last'.mac
        /\ validate_ip_address(last'.ip))
       => (/\ content' = build_reservation_block(last'.hostname, last'.mac, last'.ip, domain)
           /\ extract_all_reservations(content')
                  = <<(<<Fqdn(last'.hostname, domain), last'.mac, last'.ip>>)>>)]_vars

(* the text holds a block of the name: its header and a closing brace after it *)
HasBlock(c, fqdn) == \E p \in BlocksOf(c, fqdn) : FirstRb(c, p) # 0

(* C18, as claimed: find_reservation_block finds the block of a name wherever it *)
(* stands, also when its closing brace ends the file, and reports not-found only *)
(* when the text holds no block of the name: a remove of the name removes a      *)
(* block exactly when there is one, and the span starts at a header of the name. *)
C18_FindsAnywhere ==
    [][(pc = "ops" /\ nops' = nops + 1 /\ last'.op = "remove")
       => LET fqdn == Fqdn(last'.hostname, domain)
              span == find_reservation_block(content, fqdn)
          IN /\ last'.changed <=> HasBlock(content, fqdn)
             /\ span[1] = -1 <=> ~HasBlock(content, fqdn)
             /\ span[1] # -1 => (span[1] + 1) \in BlocksOf(content, fqdn)]_vars

(* the block opened at p holds the statements at i and k: a hardware ethernet    *)
(* and a fixed-address that the patterns accept, in either order                 *)
HoldsBoth(c, p, i, k) ==
    /\ InBlockOf(c, p, i) /\ HwMatches(c[i])
    /\ InBlockOf(c, p, k) /\ FaMatches(c[k])
    /\ FirstRb(c, p) # 0

(* C19, as claimed: a block that holds a hardware ethernet and a fixed-address   *)
(* statement, in either order, is reported by extract_all_reservations and by    *)
(* find_reservation_by_mac, and a non-interactive add of its MAC under another   *)
(* name returns the conflict error.                                              *)
C19_EitherOrder ==
    [][(pc = "ops" /\ nops' = nops + 1 /\ last'.op = "add")
       => \A p, i, k \in 1..Len(content) :
              HoldsBoth(content, p, i, k)
                  => /\ \E j \in 1..Len(extract_all_reservations(content)) :
                            extract_all_reservations(content)[j]
                                = <<content[p].v, LowerSeq(content[i].v), content[k].v>>
                     /\ find_reservation_by_mac(content, LowerSeq(content[i].v)) # None
                     /\ (/\ ~last'.interactive
                         /\ last'.mac = LowerSeq(content[i].v)
                         /\ content[p].v # Fqdn(last'.hostname, domain)
                         /\ Cardinality(MacHolders(content, last'.mac)) = 1)
                            => (last'.error = ErrConflict /\ content' = content)]_vars

-----------------------------------------------------------------------------
(* Properties of a run without backup *)

(* C20: in a run started with the backup opt-out, when the validator rejects the *)
(* written file main returns 1, no backup exists and nothing is restored: the    *)
(* file on disk is the buffer that was written.                                  *)
C20_NoBackupNoRollback ==
    (PostCheckFailed /\ args.no_backup /\ ~args.skip_validation)
        => /\ exit = 1
           /\ out = MsgUpdatedInvalid
           /\ ~backup.exists /\ backup_path = "None"
           /\ disk = content
           /\ Rejected

(* a rejected changed buffer stayed on disk in a run without backup *)
C20_Witness ==
    /\ PostCheckFailed /\ args.no_backup /\ ~args.skip_validation
    /\ exit = 1
    /\ disk = content /\ disk # orig_disk
    /\ ok >= 1

-----------------------------------------------------------------------------
(* Properties of the files *)

MsgWriteFailed == "ERROR: failed writing config"

(* C21, as claimed: when the final write fails main returns 1 and the file on    *)
(* disk still holds its complete content from before the run.                    *)
C21_WriteFailureKeepsFile ==
    (pc = "done" /\ out = MsgWriteFailed) => (exit = 1 /\ disk = orig_disk)

(* C22, as claimed: the backup a run takes is a copy of the configuration file   *)
(* as it was before the run's mutations, and a backup file, once written, is     *)
(* never changed or deleted, by this run or by a later one, whatever the clock.  *)
C22_SnapshotsKept ==
    [][/\ (pc = "backup" /\ pc' = "loop" /\ ~args.no_backup)
              => (snapshots'[now].exists /\ snapshots'[now].content = orig_disk
                  /\ backup' = snapshots'[now])
       /\ \A t \in 0..MaxClock : snapshots[t].exists => snapshots'[t] = snapshots[t]]_vars

-----------------------------------------------------------------------------
(* Properties of the validator's outcomes *)

(* C23: when no dhcpd binary is found validate_dhcpd_syntax answers valid with   *)
(* the warning: the pre-check lets the run go on to the backup, and the          *)
(* post-check goes to the summary with the written file left on disk and no      *)
(* restore.                                                                      *)
C23_AbsentValidatorPasses ==
    [][/\ validate_dhcpd_syntax("absent").is_valid
       /\ validate_dhcpd_syntax("absent").error_msg = WarnNoBinary
       /\ (pc = "precheck" /\ error_msg' = WarnNoBinary)
              => (pc' = "backup" /\ exit' = -1 /\ disk' = disk /\ content' = content)
       /\ (pc = "postcheck" /\ error_msg' = WarnNoBinary)
              => (/\ pc' = "done" /\ out' = "Summary"
                  /\ exit' = ExitCode(fail)
                  /\ disk' = disk /\ disk' = content)]_vars

(* a run on a host without dhcpd changed the file and returned 0 *)
C23_Witness ==
    /\ pc = "done" /\ ~args.skip_validation
    /\ error_msg = WarnNoBinary
    /\ out = "Summary" /\ exit = 0
    /\ disk = content /\ disk # orig_disk
    /\ backup.exists /\ backup.content = orig_disk

MsgTimeout == "Timeout while validating dhcpd configuration"

(* C24: a timeout of dhcpd -t is a failed validation, decided in the one call:   *)
(* in the pre-check main returns 1 with no backup taken, no record applied and   *)
(* the file untouched; in the post-check main returns 1 and restores the backup  *)
(* if the run took one, as for a file that dhcpd rejects.                        *)
C24_TimeoutIsFailure ==
    [][/\ validate_dhcpd_syntax("timeout").is_valid = validate_dhcpd_syntax("nonzero").is_valid
       /\ validate_dhcpd_syntax("timeout").error_msg = MsgTimeout
       /\ (pc = "precheck" /\ error_msg' = MsgTimeout)
              => (/\ pc' = "done" /\ exit' = 1 /\ out' = MsgCurrentInvalid
                  /\ disk' = disk /\ disk' = orig_disk
                  /\ ~backup'.exists /\ idx' = 0 /\ content' = orig_disk)
       /\ (pc = "postcheck" /\ error_msg' = MsgTimeout)
              => (/\ pc' = "done" /\ exit' = 1
                  /\ IF args.no_backup
                     THEN out' = MsgUpdatedInvalid /\ disk' = disk
                     ELSE /\ out' \in {MsgRestored, MsgRestoreFailed}
                          /\ out' = MsgRestored => disk' = orig_disk)]_vars

(* the post-check timed out on a changed file and the backup was restored *)
C24_Witness ==
    /\ pc = "done" /\ error_msg = MsgTimeout
    /\ out = MsgRestored /\ exit = 1
    /\ content # orig_disk /\ disk = orig_disk

-----------------------------------------------------------------------------
(* Properties of the prompt *)

(* C25: end of input or an interrupt at the confirmation prompt is a "no":       *)
(* get_user_confirmation returns False, add_reservation returns what it returns  *)
(* for a declined confirmation, the buffer stays as it was, the record is        *)
(* counted as failed and the loop goes on with the next record.                  *)
C25_CancelIsNo ==
    [][/\ ~get_user_confirmation(<<EndOfInput>>) /\ ~get_user_confirmation(<<Interrupt>>)
       /\ (pc = "loop" /\ idx' = idx + 1 /\ last'.answer \in {"eof", "interrupt"})
              => LET r == records[idx + 1]
                     declined == add_reservation(content, r.hostname, r.mac, r.ip, domain,
                                                 TRUE, get_user_confirmation(<<Line(<<"n", "o">>)>>))
                 IN /\ last'.prompted /\ prompts' = prompts + 1
                    /\ last'.error = ErrDeclined /\ last'.error = declined.error
                    /\ last'.after = declined.content /\ last'.changed = declined.changed
                    /\ last'.after = content /\ content' = content
                    /\ fail' = fail + 1 /\ ok' = ok
                    /\ pc' = "loop" /\ exit' = -1
                    /\ UNCHANGED <<records, disk>>]_vars

(* the prompt of the first of two records was cancelled and the loop is going on *)
C25_Witness ==
    /\ pc = "loop" /\ Len(records) = 2 /\ idx = 1
    /\ last.answer \in {"eof", "interrupt"} /\ last.prompted
    /\ last.error = ErrDeclined
    /\ content = last.before /\ fail = 1

-----------------------------------------------------------------------------
(* Properties of the validators *)

(* six groups of two lower-case hex digits, joined by colons *)
SixGroups(s) ==
    /\ Len(Split(s, ":")) = 6
    /\ \A i \in 1..Len(Split(s, ":")) :
           /\ Len(Split(s, ":")[i]) = 2
           /\ \A j \in 1..Len(Split(s, ":")[i]) : Split(s, ":")[i][j] \in HexLower

(* C26: normalize_mac gives the lower-case colon form for a MAC written with     *)
(* dashes or upper-case digits, gives a canonical value back unchanged, and      *)
(* gives None for what is not six groups of two hex digits ("aa:bb:cc",          *)
(* "not-a-mac"); main then takes the canonical value into its record, or returns *)
(* 1 on an invalid MAC.                                                          *)
C26_NormalizeMac ==
    [][(pc = "args" /\ ~args.file /\ args.action = "add" /\ Len(rows[1]) >= 3)
       => LET mac == rows[1][2]
              norm == normalize_mac(mac)
          IN /\ norm # None
                    <=> SixGroups(ReplaceChar(LowerSeq(Strip(mac)), "-", ":"))
             /\ norm # None => (SixGroups(norm) /\ normalize_mac(norm) = norm)
             /\ mac \in {MacADashUpper, MacMixed, MacA} => norm = MacA
             /\ mac \in {MacShort, MacNot} => norm = None
             /\ norm = None
                    => (pc' = "done" /\ exit' = 1 /\ out' = "ERROR: invalid MAC address")
             /\ pc' = "load" => (norm # None /\ records'[1].mac = norm)]_vars

(* a MAC written with dashes and capitals was taken into the record in its       *)
(* canonical form                                                                *)
C26_Witness ==
    /\ pc = "load" /\ ~args.file /\ args.action = "add"
    /\ Len(records) = 1
    /\ records[1].hostname = HostB /\ records[1].mac = MacA

DigitChar(n) ==
    CASE n = 0 -> "0" [] n = 1 -> "1" [] n = 2 -> "2" [] n = 3 -> "3" [] n = 4 -> "4"
      [] n = 5 -> "5" [] n = 6 -> "6" [] n = 7 -> "7" [] n = 8 -> "8" [] n = 9 -> "9"

(* the decimal numeral of n *)
RECURSIVE Numeral(_)
Numeral(n) == IF n < 10 THEN <<DigitChar(n)>> ELSE Numeral(n \div 10) \o <<DigitChar(n % 10)>>

RECURSIVE StripZeros(_)
StripZeros(s) == IF Len(s) > 1 /\ Head(s) = "0" THEN StripZeros(Tail(s)) ELSE s

(* the component reads as the integer n: blanks around, a sign, leading zeros *)
Denotes(c, n) ==
    LET t == Strip(c)
        body == IF t # <<>> /\ (Head(t) = "+" \/ (Head(t) = "-" /\ n = 0)) THEN Tail(t) ELSE t
    IN body # <<>> /\ StripZeros(body) = Numeral(n)

FourInRange(ip) ==
    /\ Len(Split(ip, ".")) = 4
    /\ \A i \in 1..Len(Split(ip, ".")) : \E n \in 0..255 : Denotes(Split(ip, ".")[i], n)

(* C27: validate_ip_address accepts an address exactly when it has four          *)
(* dot-separated components that each read as an integer from 0 to 255; it       *)
(* rejects "256.1.1.1", "1.2.3", "1.2.3.4.5" and a non-numeric component and     *)
(* accepts "192.168.1.100"; main takes an accepted address into its record and   *)
(* returns 1 on a rejected one.                                                  *)
C27_ValidateIp ==
    [][(/\ pc = "args" /\ ~args.file /\ args.action = "add" /\ Len(rows[1]) >= 3
        /\ normalize_mac(rows[1][2]) # None)
       => LET ip == rows[1][3]
              valid == validate_ip_address(ip)
          IN /\ valid <=> FourInRange(ip)
             /\ ip \in {IpBad, IpThreeParts, IpFiveParts, IpNotNumeric} => ~valid
             /\ ip \in {IpLan, IpOne, IpTwo} => valid
             /\ ~valid => (pc' = "done" /\ exit' = 1 /\ out' = "ERROR: invalid IP address")
             /\ pc' = "load" => (valid /\ records'[1].ip = Strip(ip))]_vars

(* "192.168.1.100" was accepted and taken into the record *)
C27_Witness ==
    /\ pc = "load" /\ ~args.file /\ args.action = "add"
    /\ Len(records) = 1 /\ records[1].ip = IpLan

-----------------------------------------------------------------------------
(* Properties of the two searches together *)

(* C28: every reservation the search by MAC or the export reports under a name   *)
(* is located by find_reservation_block under that name, so an add that the MAC  *)
(* probe classifies as an update of the name's own block replaces that block and *)
(* appends no second one.                                                        *)
C28_SearchesAgree ==
    [][/\ \A i \in 1..Len(extract_all_reservations(content)) :
              find_reservation_block(content, extract_all_reservations(content)[i][1])
                  # <<-1, -1>>
       /\ \A mac \in {MacA, MacB} :
              find_reservation_by_mac(content, mac) # None
                  => find_reservation_block(content, find_reservation_by_mac(content, mac)[1])
                         # <<-1, -1>>
       /\ (/\ nops' = nops + 1 /\ last'.op = "add"
           /\ find_reservation_by_mac(content, last'.mac) # None
           /\ find_reservation_by_mac(content, last'.mac)[1]
                  = Fqdn(last'.hostname, domain))
              => /\ last'.error = ""
                 /\ Cardinality(BlocksOf(content', Fqdn(last'.hostname, domain)))
                        = Cardinality(BlocksOf(content, Fqdn(last'.hostname, domain)))]_vars

-----------------------------------------------------------------------------
(* Properties of the error paths *)

(* C29: when add_reservation returns an error (a conflict in non-interactive     *)
(* mode, a declined prompt, or a conflicting block that could not be removed),   *)
(* the text it returns is the text it was given and it reports no change; the    *)
(* loop keeps its buffer for that record, counts it as failed and goes on, so no *)
(* error path leaves the old block removed without the new block.                *)
C29_ErrorKeepsText ==
    [][(/\ pc = "loop" /\ idx' = idx + 1 /\ args.action = "add"
        /\ last'.error \in {ErrConflict, ErrDeclined, ErrRemove})
       => LET r == records[idx + 1]
              res == add_reservation(content, r.hostname, r.mac, r.ip, domain,
                                     last'.interactive, last'.answer = "yes")
          IN /\ res.error = last'.error
             /\ res.content = content /\ ~res.changed
             /\ last'.before = content /\ last'.after = content /\ ~last'.changed
             /\ find_reservation_by_mac(last'.after, r.mac)
                    = find_reservation_by_mac(content, r.mac)
             /\ find_reservation_by_mac(last'.after, r.mac) # None
             /\ content' = content
             /\ fail' = fail + 1 /\ ok' = ok
             /\ pc' = "loop"
             /\ UNCHANGED <<records, disk>>]_vars

(* the user accepted, the conflicting block could not be removed, and the buffer *)
(* is what it was before the call                                                *)
C29_Witness ==
    /\ pc = "loop" /\ last.op = "add"
    /\ last.error = ErrRemove /\ last.answer = "yes"
    /\ find_reservation_by_mac(last.before, last.mac) # None
    /\ content = last.before /\ fail >= 1

-----------------------------------------------------------------------------
(* Add and remove together *)

(* the text has no block for the name and the search by MAC finds no holder *)
FreshFor(c, hostname, mac) ==
    /\ BlocksOf(c, Fqdn(hostname, domain)) = {}
    /\ find_reservation_by_mac(c, mac) = None

(* the text with a newline at its end, as the append leaves it *)
Terminated(c) == IF c # <<>> /\ c[Len(c)].t # "nl" THEN c \o <<NL>> ELSE c

(* C30: on a text with no block for the name and no block holding the MAC, an    *)
(* add of a record for the name followed by a remove of the name gives the       *)
(* original text back when the text is empty or ends with a newline, and the     *)
(* original text plus one newline otherwise.                                     *)
C30_AddRemoveRoundTrip ==
    [][(/\ last.op = "add" /\ FreshFor(last.before, last.hostname, last.mac)
        /\ nops' = nops + 1 /\ last'.op = "remove" /\ last'.hostname = last.hostname)
       => /\ last.error = "" /\ last.changed /\ ~last.prompted
          /\ last.after = Terminated(last.before)
                              \o build_reservation_block(last.hostname, last.mac, last.ip, domain)
          /\ last'.before = last.after
          /\ last'.changed
          /\ content' = Terminated(last.before)
          /\ (last.before = <<>> \/ last.before[Len(last.before)].t = "nl")
                 => content' = last.before
          /\ (last.before # <<>> /\ last.before[Len(last.before)].t # "nl")
                 => content' = last.before \o <<NL>>]_vars

(* a record was added to a text that had text but no block for its name, the     *)
(* name was then removed, and the text is the original again                     *)
C30_Witness ==
    /\ nops = 2 /\ last.op = "remove" /\ last.changed
    /\ orig_disk # <<>>
    /\ BlocksOf(orig_disk, Fqdn(last.hostname, domain)) = {}
    /\ BlocksOf(last.before, Fqdn(last.hostname, domain)) # {}
    /\ content = orig_disk

====
